---- MODULE Spec2Model ----
(***************************************************************************)
(* The incremental vector-indexing pipeline of applenotes-organization:    *)
(* VectorSearch (tools/vector_search.py) over the Apple Notes source       *)
(* (tools/note_operations.py) and a LanceDB table.                         *)
(*                                                                         *)
(* Timestamps are integers (seconds).  The vector column and the embedding *)
(* are left out: no operation of VectorSearch reads them.                  *)
(***************************************************************************)
EXTENDS Integers, Sequences, FiniteSets, TLC

\* ------------------------------------------------------------- bounds
\* A run holds at most MaxEvents events: calls, faults, edits, clock ticks and
\* redeployments.
MaxEvents == 4
\* INDEX_VERSION is redeployed with values in 1..MaxVersion.
MaxVersion == 2
\* search is called with limit in 0..MaxLimit.
MaxLimit == 2
\* A reply of the scripting bridge has at most MaxLen characters.
MaxLen == 5

\* ------------------------------------------------------------- constants
\* INDEX_VERSION = 1 at vector_search.py:25
InitialIndexVersion == 1

\* folder_name = None (and the empty string: both are falsy in `if folder_name`)
NoFolder == ""

Folders == {"F", "G"}

\* The notes of the Notes application, in the application's own order.
NoteOrder == <<"n1", "n2", "n3">>

NoteIds == {NoteOrder[k] : k \in 1..Len(NoteOrder)}

\* Three notes of one folder with distinct names.
FixtureDistinct ==
    [n \in NoteIds |->
        [name |-> CASE n = "n1" -> "a" [] n = "n2" -> "b" [] OTHER -> "c",
         folder |-> "F"]]

\* Two notes of different folders share a name.
FixtureShared ==
    [n \in NoteIds |->
        [name |-> CASE n = "n1" -> "a" [] n = "n2" -> "b" [] OTHER -> "a",
         folder |-> IF n = "n3" THEN "G" ELSE "F"]]

\* Two notes of one folder share a name.
FixtureTwins ==
    [n \in NoteIds |->
        [name |-> CASE n = "n1" -> "a" [] n = "n2" -> "a" [] OTHER -> "b",
         folder |-> IF n = "n3" THEN "G" ELSE "F"]]

Fixtures == {FixtureDistinct, FixtureShared, FixtureTwins}

\* The faults one loop iteration can meet: a source call raising
\* AppleScriptError (id, ts, details), an unparsable timestamp reply
\* (garbled), table.delete raising (delete), table.add raising (add).
IterFaults == {"none", "id", "ts", "garbled", "details", "delete", "add"}

\* The faults the part of a call before the loop can meet: the listing
\* raising (list), lancedb.connect / mkdir raising (connect), open_table
\* raising on an existing table (open), drop_table raising (drop), the first
\* create_table raising (create), every create_table raising (create_twice),
\* reading the table's rows raising (read).
CallFaults ==
    {"none", "list", "connect", "open", "drop", "create", "create_twice", "read"}

VARIABLES
    clock,          \* _now_ts()
    INDEX_VERSION,  \* the deployed INDEX_VERSION
    source,         \* the Notes application: note id -> name, folder, mts
    tbl,            \* the LanceDB table: "none", "old" (no index_version column), "cur"
    rows,           \* the table's rows, in storage order
    pc,             \* "idle" or "loop"
    call,           \* the locals of the call in progress
    trace,          \* one record per loop iteration of the call in progress
    events,         \* the events so far
    bridge,         \* a reply of the scripting bridge and what the parser made of it
    filter,         \* a value, the filter text built from it and what the store matched
    done            \* the call that just ended; NoCall once a call runs, a note
                    \* is edited or the program is redeployed

vars ==
    <<clock, INDEX_VERSION, source, tbl, rows, pc, call, trace, done, events,
      bridge, filter>>

\* ------------------------------------------------------------- helpers
Min(S) == CHOOSE x \in S : \A y \in S : x <= y

Max(S) == CHOOSE x \in S : \A y \in S : x >= y

\* ------------------------------------------------------------- the bridge
\* The seconds run_inline_applescript gives osascript (timeout=30).
ScriptTimeout == 30

\* What one run of osascript can come to: whether the program was found, the
\* seconds it needs, its exit code and its output.
ProcResults ==
    [found : BOOLEAN,
     elapsed : {0, ScriptTimeout - 1, ScriptTimeout, ScriptTimeout + 1},
     returncode : {0, 1},
     stdout : {"", "reply"}]

\* The run of the script of one step ("id", "ts", "details") of an iteration
\* under the iteration's fault: the id lookup of a note that cannot be found
\* exits with code 1, the modification-date script and the scripts of the
\* detail fetch do not end in time; a step the fault does not hit replies.
osascript(fault, step) ==
    [found |-> TRUE,
     elapsed |-> IF fault = step /\ step # "id" THEN ScriptTimeout + 1 ELSE 0,
     returncode |-> IF fault = step /\ step = "id" THEN 1 ELSE 0,
     stdout |-> IF fault = step THEN "" ELSE "reply"]

\* A variant without the timeout: the reply is awaited however long it takes.
run_inline_applescript_waits(proc) ==
    IF ~proc.found \/ proc.returncode # 0
    THEN [raised |-> "AppleScriptError", output |-> ""]
    ELSE [raised |-> "none", output |-> proc.stdout]

\* run_inline_applescript: the output, or AppleScriptError when osascript is
\* not found, does not end within the timeout or exits with a non-zero code.
run_inline_applescript(proc) ==
    IF ~proc.found
    THEN [raised |-> "AppleScriptError", output |-> ""]
    ELSE IF proc.elapsed > ScriptTimeout
    THEN [raised |-> "AppleScriptError", output |-> ""]
    ELSE IF proc.returncode # 0
    THEN [raised |-> "AppleScriptError", output |-> ""]
    ELSE [raised |-> "none", output |-> proc.stdout]

\* The exception the step of an iteration raises under the iteration's fault.
Raised(fault, step) ==
    run_inline_applescript(osascript(fault, step)).raised

\* ------------------------------------------------------------- the parsers
\* The characters of a reply: letters, the comma, the space, the double quote.
Chars == {"a", "b", ",", " ", "\""}

\* The replies of at most MaxLen characters.
Replies ==
    UNION {[1..n -> Chars] : n \in 0..MaxLen}

\* No reply is being parsed.
NoReply ==
    [stage |-> "none", output |-> <<>>, items |-> <<>>, result |-> <<>>]

\* str.lstrip / str.rstrip / str.strip of the characters in cs.
RECURSIVE lstrip(_, _)
lstrip(text, cs) ==
    IF text # <<>> /\ Head(text) \in cs THEN lstrip(Tail(text), cs) ELSE text

RECURSIVE rstrip(_, _)
rstrip(text, cs) ==
    IF text # <<>> /\ text[Len(text)] \in cs
    THEN rstrip(SubSeq(text, 1, Len(text) - 1), cs)
    ELSE text

strip(text, cs) ==
    rstrip(lstrip(text, cs), cs)

\* current.strip().strip('"')
StripItem(current) ==
    strip(strip(current, {" "}), {"\""})

\* The for loop of parse_applescript_list from character i on.
RECURSIVE ParseLoop(_, _, _, _, _)
ParseLoop(output, i, items, current, in_quotes) ==
    IF i > Len(output)
    THEN [items |-> items, current |-> current]
    ELSE IF output[i] = "\""
    THEN ParseLoop(output, i + 1, items, Append(current, output[i]), ~in_quotes)
    ELSE IF output[i] = "," /\ ~in_quotes
    THEN ParseLoop(output, i + 1, Append(items, StripItem(current)), <<>>, in_quotes)
    ELSE ParseLoop(output, i + 1, items, Append(current, output[i]), in_quotes)

\* A variant that keeps the empty items.
parse_applescript_list_keeps_empty(output) ==
    IF output = <<>>
    THEN <<>>
    ELSE LET r == ParseLoop(output, 1, <<>>, <<>>, FALSE)
         IN  IF r.current # <<>>
             THEN Append(r.items, StripItem(r.current))
             ELSE r.items

\* parse_applescript_list
parse_applescript_list(output) ==
    IF output = <<>>
    THEN <<>>
    ELSE LET r == ParseLoop(output, 1, <<>>, <<>>, FALSE)
             items == IF r.current # <<>>
                      THEN Append(r.items, StripItem(r.current))
                      ELSE r.items
         IN  SelectSeq(items, LAMBDA item : item # <<>>)

\* The characters of a record reply: those of a list reply, the colon and
\* the brackets of a nested list.
RecordChars == Chars \cup {":", "[", "]"}

\* The replies of at most MaxLen characters, those between braces, and those
\* after an opening brace that is never closed.
Records ==
    LET contents == UNION {[1..n -> RecordChars] : n \in 0..MaxLen}
    IN  contents
            \cup {<<"{">> \o content : content \in contents}
            \cup {<<"{">> \o content \o <<"}">> : content \in contents}

\* The for loop of parse_applescript_dict from character i on.
RECURSIVE DictLoop(_, _, _, _, _)
DictLoop(content, i, parts, current, depth) ==
    IF i > Len(content)
    THEN [parts |-> parts, current |-> current]
    ELSE IF content[i] \in {"{", "["}
    THEN DictLoop(content, i + 1, parts, Append(current, content[i]), depth + 1)
    ELSE IF content[i] \in {"}", "]"}
    THEN DictLoop(content, i + 1, parts, Append(current, content[i]), depth - 1)
    ELSE IF content[i] = "," /\ depth = 0
    THEN DictLoop(content, i + 1, Append(parts, strip(current, {" "})), <<>>, depth)
    ELSE DictLoop(content, i + 1, parts, Append(current, content[i]), depth)

\* A variant that splits at the last colon.
split_colon_last(part) ==
    LET colons == {i \in 1..Len(part) : part[i] = ":"}
        at == Max(colons)
    IN  [key |-> SubSeq(part, 1, at - 1),
         value |-> SubSeq(part, at + 1, Len(part))]

\* part.split(":", 1) of a part that holds a colon.
split_colon(part) ==
    LET colons == {i \in 1..Len(part) : part[i] = ":"}
        at == Min(colons)
    IN  [key |-> SubSeq(part, 1, at - 1),
         value |-> SubSeq(part, at + 1, Len(part))]

\* The loop over the parts: result[key] = value for each part with a colon.
RECURSIVE StoreParts(_, _, _)
StoreParts(parts, k, result) ==
    IF k > Len(parts)
    THEN result
    ELSE IF \E i \in 1..Len(parts[k]) : parts[k][i] = ":"
    THEN LET kv == split_colon(parts[k])
             key == StripItem(kv.key)
             value == StripItem(kv.value)
         IN  StoreParts(parts, k + 1,
                 [x \in DOMAIN result \cup {key} |->
                     IF x = key THEN value ELSE result[x]])
    ELSE StoreParts(parts, k + 1, result)

\* parse_applescript_dict
parse_applescript_dict(output) ==
    IF output = <<>> \/ Head(output) # "{"
    THEN <<>>
    ELSE LET content == IF output[Len(output)] = "}"
                        THEN SubSeq(output, 2, Len(output) - 1)
                        ELSE SubSeq(output, 2, Len(output))
             r == DictLoop(content, 1, <<>>, <<>>, 0)
             parts == IF r.current # <<>>
                      THEN Append(r.parts, strip(r.current, {" "}))
                      ELSE r.parts
         IN  StoreParts(parts, 1, <<>>)

\* ------------------------------------------------------------- the source
\* NoteOperations.list_notes_in_folder: the names of the folder's notes.
list_notes_in_folder(folder_name) ==
    LET ids == SelectSeq(NoteOrder, LAMBDA n : source[n].folder = folder_name)
    IN  [k \in 1..Len(ids) |-> source[ids[k]].name]

\* NoteOperations.list_all_notes: the names of all notes.
list_all_notes ==
    [k \in 1..Len(NoteOrder) |-> source[NoteOrder[k]].name]

\* The positions of the notes a by-name reference `note "<name>"` matches.
Matching(note_name) ==
    {k \in 1..Len(NoteOrder) : source[NoteOrder[k]].name = note_name}

\* NoteOperations.get_note_id: the id of the first note of that name.
get_note_id(note_name) ==
    NoteOrder[Min(Matching(note_name))]

\* The reply of the modification-date script: a number, or text float() rejects.
ts_reply(note_name, garbled) ==
    [numeric |-> ~garbled, value |-> source[get_note_id(note_name)].mts]

\* A variant without the except clause's default: the reply's value is used
\* whether or not it parses.
get_note_modification_timestamp_raw(output) ==
    output.value

\* NoteOperations.get_note_modification_timestamp: float(output), 0.0 on ValueError.
get_note_modification_timestamp(output) ==
    IF output.numeric THEN output.value ELSE 0

\* The bodies of the notes, character by character: one ends with a blank,
\* one is empty, one begins with a line break. They never change.
Bodies ==
    [n \in NoteIds |->
        CASE n = "n1" -> <<"x", " ">>
          [] n = "n2" -> <<>>
          [] OTHER -> <<"\n", "y">>]

\* The creation times of the notes, all before the first clock value.
CreationTimes ==
    [n \in NoteIds |-> CASE n = "n1" -> -3 [] n = "n2" -> -2 [] OTHER -> -1]

\* NoteOperations.read_note: the body of the first note of that name.
read_note(note_name) ==
    Bodies[get_note_id(note_name)]

\* NoteOperations.get_note_creation_timestamp
get_note_creation_timestamp(note_name) ==
    CreationTimes[get_note_id(note_name)]

\* NoteOperations.get_note_details
get_note_details(note_name, folder_name, garbled) ==
    [note_id |-> get_note_id(note_name),
     name |-> note_name,
     folder |-> IF folder_name # NoFolder
                THEN folder_name
                ELSE source[get_note_id(note_name)].folder,
     body |-> read_note(note_name),
     created_ts |-> get_note_creation_timestamp(note_name),
     modified_ts |-> get_note_modification_timestamp(ts_reply(note_name, garbled))]

\* ------------------------------------------------------------- the store
\* A variant that creates the table anew on every call.
_get_table_recreates(t, rs, fault) ==
    [raised |-> fault = "connect",
     tbl |-> IF fault = "connect" THEN t ELSE "cur",
     rows |-> IF fault = "connect" THEN rs ELSE <<>>]

\* A variant that migrates in place: the rows of an old table are kept and
\* given the index_version column, with the value 0.
_get_table_alters(t, rs, fault) ==
    IF fault = "connect"
    THEN [raised |-> TRUE, tbl |-> t, rows |-> rs]
    ELSE IF t = "old"
    THEN [raised |-> FALSE, tbl |-> "cur",
          rows |-> [k \in 1..Len(rs) |-> [note_id |-> rs[k].note_id, name |-> rs[k].name,
                       folder |-> rs[k].folder, modified_ts |-> rs[k].modified_ts,
                       indexed_at |-> rs[k].indexed_at, index_version |-> 0]]]
    ELSE IF t = "cur"
    THEN [raised |-> fault = "open", tbl |-> t, rows |-> rs]
    ELSE [raised |-> FALSE, tbl |-> "cur", rows |-> <<>>]

\* VectorSearch._get_table
_get_table(t, rs, fault) ==
    IF fault = "connect"
    THEN [raised |-> TRUE, tbl |-> t, rows |-> rs]
    ELSE IF t # "none" /\ fault # "open"
    THEN \* open_table returned
         IF t = "cur"
         THEN [raised |-> FALSE, tbl |-> t, rows |-> rs]
         ELSE IF fault = "drop"
         THEN \* drop_table raises; create_table of line 216 finds the table
              [raised |-> TRUE, tbl |-> t, rows |-> rs]
         ELSE IF fault = "create_twice"
         THEN [raised |-> TRUE, tbl |-> "none", rows |-> <<>>]
         ELSE \* created at line 207, or at line 216 after line 207 raised
              [raised |-> FALSE, tbl |-> "cur", rows |-> <<>>]
    ELSE \* open_table raised
         IF t # "none"
         THEN \* create_table of line 216 finds the table
              [raised |-> TRUE, tbl |-> t, rows |-> rs]
         ELSE IF fault \in {"create", "create_twice"}
         THEN [raised |-> TRUE, tbl |-> "none", rows |-> <<>>]
         ELSE [raised |-> FALSE, tbl |-> "cur", rows |-> <<>>]

\* The positions of the rows _get_index_map reads.
MapScope(rs, folder_name) ==
    {k \in 1..Len(rs) :
        /\ folder_name # NoFolder => rs[k].folder = folder_name
        /\ rs[k].note_id # ""}

\* VectorSearch._get_index_map: note_id -> <<indexed_at, index_version>>,
\* a later row replacing an earlier one.
_get_index_map(rs, folder_name) ==
    LET scope == MapScope(rs, folder_name)
        ids == {rs[k].note_id : k \in scope}
        lastOf(id) == Max({k \in scope : rs[k].note_id = id})
    IN  [id \in ids |-> <<rs[lastOf(id)].indexed_at, rs[lastOf(id)].index_version>>]

\* A variant whose filter matches every row.
DeleteWhere_all(rs, note_id) ==
    <<>>

\* table.delete("note_id = '<id>'")
DeleteWhere(rs, note_id) ==
    SelectSeq(rs, LAMBDA r : r.note_id # note_id)

\* What str.strip() removes.
Whitespace == {" ", "\n"}

\* A variant that embeds the text as it is.
content_of_untrimmed(name, body) ==
    <<name>> \o <<"\n", "\n">> \o body

\* f"{name}\n\n{body}".strip(); a name of the model is one character.
content_of(name, body) ==
    strip(<<name>> \o <<"\n", "\n">> \o body, Whitespace)

\* A variant that stamps the later of the clock and the modification time.
NewRow_stamps_latest(note_details, now) ==
    [note_id |-> note_details.note_id,
     name |-> note_details.name,
     folder |-> note_details.folder,
     content |-> content_of(note_details.name, note_details.body),
     created_ts |-> note_details.created_ts,
     modified_ts |-> note_details.modified_ts,
     indexed_at |-> Max({now, note_details.modified_ts}),
     index_version |-> INDEX_VERSION]

\* The row _upsert_note adds.
NewRow(note_details, now) ==
    [note_id |-> note_details.note_id,
     name |-> note_details.name,
     folder |-> note_details.folder,
     content |-> content_of(note_details.name, note_details.body),
     created_ts |-> note_details.created_ts,
     modified_ts |-> note_details.modified_ts,
     indexed_at |-> now,
     index_version |-> INDEX_VERSION]

\* VectorSearch._upsert_note: delete (a failure is swallowed), then add.
_upsert_note(rs, note_details, now, fault) ==
    LET afterDelete ==
            IF fault = "delete" THEN rs ELSE DeleteWhere(rs, note_details.note_id)
    IN  IF fault = "add"
        THEN [raised |-> TRUE, rows |-> afterDelete]
        ELSE [raised |-> FALSE, rows |-> Append(afterDelete, NewRow(note_details, now))]

\* The faults that can change what _get_table does on table t.
TableFaults(t) ==
    CASE t = "none" -> {"connect", "create"}
      [] t = "old" -> {"connect", "open", "drop", "create", "create_twice"}
      [] OTHER -> {"connect", "open"}

\* ------------------------------------------------------------- filters
\* The characters of a filter value: a letter and the single quote.
FilterChars == {"a", "'"}

\* The values of at most MaxLen characters.
FilterValues ==
    UNION {[1..n -> FilterChars] : n \in 0..MaxLen}

\* No filter is being applied.
NoFilter ==
    [stage |-> "none", column |-> "", value |-> <<>>, stored |-> <<>>,
     escaped |-> <<>>, text |-> <<>>, wellformed |-> FALSE, matched |-> FALSE]

\* A variant that leaves the value as it is.
RECURSIVE _escape_filter_value_verbatim(_)
_escape_filter_value_verbatim(value) ==
    IF value = <<>>
    THEN <<>>
    ELSE <<Head(value)>> \o _escape_filter_value_verbatim(Tail(value))

\* VectorSearch._escape_filter_value: value.replace("'", "''")
RECURSIVE _escape_filter_value(_)
_escape_filter_value(value) ==
    IF value = <<>>
    THEN <<>>
    ELSE (IF Head(value) = "'" THEN <<"'", "'">> ELSE <<Head(value)>>)
             \o _escape_filter_value(Tail(value))

\* f"<column> = '{escaped}'", the column name taken as one token.
FilterText(column, escaped) ==
    <<column, " ", "=", " ", "'">> \o escaped \o <<"'">>

\* The store reads a string literal from character i on, after its opening
\* quote: two quotes in a row stand for one quote, one quote ends the literal.
RECURSIVE ReadLiteral(_, _, _)
ReadLiteral(text, i, value) ==
    IF i > Len(text)
    THEN [closed |-> FALSE, value |-> value, next |-> i]
    ELSE IF text[i] # "'"
    THEN ReadLiteral(text, i + 1, Append(value, text[i]))
    ELSE IF i < Len(text) /\ text[i + 1] = "'"
    THEN ReadLiteral(text, i + 2, Append(value, "'"))
    ELSE [closed |-> TRUE, value |-> value, next |-> i + 1]

\* The store applies the filter text: the text is a comparison of a column
\* with one string literal and nothing else, or the store rejects it.
Where(text) ==
    LET literal == ReadLiteral(text, 6, <<>>)
        wellformed == /\ Len(text) >= 6
                      /\ SubSeq(text, 2, 5) = <<" ", "=", " ", "'">>
                      /\ literal.closed
                      /\ literal.next = Len(text) + 1
    IN  [wellformed |-> wellformed,
         column |-> text[1],
         value |-> IF wellformed THEN literal.value ELSE <<>>]

\* ------------------------------------------------------------- freshness
\* Variants of the freshness rule: a note modified at the very time it was
\* indexed is stale (_ge); the version is not looked at (_no_version); a row of
\* the current version is stale (_le).
needs_reindex_index_folder_ge(index_map, note_id, modified_ts) ==
    \/ note_id \notin DOMAIN index_map
    \/ index_map[note_id][2] < INDEX_VERSION
    \/ modified_ts >= index_map[note_id][1]

needs_reindex_index_folder_no_version(index_map, note_id, modified_ts) ==
    \/ note_id \notin DOMAIN index_map
    \/ modified_ts > index_map[note_id][1]

needs_reindex_reindex_updated_notes_ge(index_map, note_id, modified_ts) ==
    \/ note_id \notin DOMAIN index_map
    \/ index_map[note_id][2] < INDEX_VERSION
    \/ modified_ts >= index_map[note_id][1]

needs_reindex_reindex_updated_notes_le(index_map, note_id, modified_ts) ==
    \/ note_id \notin DOMAIN index_map
    \/ index_map[note_id][2] <= INDEX_VERSION
    \/ modified_ts > index_map[note_id][1]

\* A variant of reindex_updated_notes alone: a row of any other version,
\* lower or higher, is stale.
needs_reindex_reindex_updated_notes_mismatch(index_map, note_id, modified_ts) ==
    \/ note_id \notin DOMAIN index_map
    \/ index_map[note_id][2] # INDEX_VERSION
    \/ modified_ts > index_map[note_id][1]

\* A variant of index_folder alone: a note without an index-map entry is
\* taken for indexed.
needs_reindex_index_folder_known_only(index_map, note_id, modified_ts) ==
    /\ note_id \in DOMAIN index_map
    /\ \/ index_map[note_id][2] < INDEX_VERSION
       \/ modified_ts > index_map[note_id][1]

\* needs_reindex of index_folder
needs_reindex_index_folder(index_map, note_id, modified_ts) ==
    \/ note_id \notin DOMAIN index_map
    \/ index_map[note_id][2] < INDEX_VERSION
    \/ modified_ts > index_map[note_id][1]

\* needs_reindex of reindex_updated_notes
needs_reindex_reindex_updated_notes(index_map, note_id, modified_ts) ==
    \/ note_id \notin DOMAIN index_map
    \/ index_map[note_id][2] < INDEX_VERSION
    \/ modified_ts > index_map[note_id][1]

needs_reindex(op, index_map, note_id, modified_ts) ==
    IF op = "index_folder"
    THEN needs_reindex_index_folder(index_map, note_id, modified_ts)
    ELSE needs_reindex_reindex_updated_notes(index_map, note_id, modified_ts)

\* ------------------------------------------------------------- bookkeeping
\* One more event, while the run may hold one.
Event ==
    /\ events < MaxEvents
    /\ events' = events + 1

\* The record of a call that has ended: what the caller got (kind: "count",
\* "list" or "error"; count; results) and how the call ran.
NoCall ==
    [op |-> "none", folder |-> NoFolder, kind |-> "none", count |-> 0,
     results |-> <<>>, n |-> 0, trace |-> <<>>, acq |-> "skipped",
     raised |-> "none", cold |-> FALSE, outdated |-> FALSE, again |-> FALSE,
     past |-> FALSE, clean |-> TRUE, version |-> 0,
     limit |-> 0, with_distance |-> FALSE, crashed |-> ""]

\* The locals of a call (op .. skipped) and what held when it started.
IdleCall ==
    [op |-> "none", folder |-> NoFolder, notes |-> <<>>, i |-> 1,
     index_map |-> <<>>, indexed |-> 0, skipped |-> 0,
     cold |-> FALSE, outdated |-> FALSE, again |-> FALSE, past |-> FALSE,
     limit |-> 0, with_distance |-> FALSE, crashed |-> ""]

\* Every note of the folder has a row, and all its rows are older than INDEX_VERSION.
Outdated(rs, folder_name) ==
    /\ \E n \in NoteIds : source[n].folder = folder_name
    /\ \A n \in NoteIds :
        source[n].folder = folder_name =>
            /\ \E k \in 1..Len(rs) : rs[k].note_id = n
            /\ \A k \in 1..Len(rs) :
                   rs[k].note_id = n => rs[k].index_version < INDEX_VERSION

\* The iterations that met no exception: every source call and store call
\* returned (an unparsable reply is no exception).
Clean(tr) ==
    \A k \in 1..Len(tr) : tr[k].fault \in {"none", "garbled"}

\* The call that starts repeats the call that just ended: the same operation on
\* the same folder, which started on an empty index map, met no exception and
\* returned a count; no note was edited and INDEX_VERSION is the same since
\* that call started.
Repeats(op, folder_name) ==
    /\ done.op = op
    /\ done.folder = folder_name
    /\ done.kind = "count"
    /\ done.cold
    /\ done.clean
    /\ done.version = INDEX_VERSION

\* No note's modification date is ahead of the clock.
NoneAhead ==
    \A n \in NoteIds : source[n].mts <= clock

Started(op, folder_name) ==
    [IdleCall EXCEPT !.op = op, !.folder = folder_name,
                     !.again = Repeats(op, folder_name),
                     !.past = IF Repeats(op, folder_name) THEN done.past ELSE NoneAhead,
                     !.crashed = IF done.kind = "crashed" THEN done.crashed ELSE ""]

Summary(c, tr, kind, count, results, acq, raised) ==
    [op |-> c.op, folder |-> c.folder, kind |-> kind, count |-> count,
     results |-> results, n |-> Len(c.notes),
     trace |-> tr,
     acq |-> acq, raised |-> raised, cold |-> c.cold, outdated |-> c.outdated,
     again |-> c.again, past |-> c.past, clean |-> Clean(tr),
     version |-> INDEX_VERSION,
     limit |-> c.limit, with_distance |-> c.with_distance,
     crashed |-> c.crashed]

\* The call ends: the caller gets a count, a result list or an exception.
EndCall(c, tr, kind, count, results, acq, raised) ==
    /\ pc' = "idle"
    /\ call' = IdleCall
    /\ trace' = <<>>
    /\ done' = Summary(c, tr, kind, count, results, acq, raised)

\* A variant in which the exception is swallowed and the call returns 0.
Propagate_returns(c, acq, raised) ==
    EndCall(c, <<>>, "count", 0, <<>>, acq, raised)

\* An exception raised before the loop leaves the call: no try encloses the
\* listing, _get_table, _get_index_map or the query.  acq tells whether
\* _get_table was called and returned ("ok"), raised, or was not called.
Propagate(c, acq, raised) ==
    EndCall(c, <<>>, "error", 0, <<>>, acq, raised)

\* A call enters its loop.
EnterLoop(c) ==
    /\ pc' = "loop"
    /\ call' = c
    /\ trace' = <<>>
    /\ done' = NoCall

\* ------------------------------------------------------------- index_folder
\* A variant that acquires the table before it looks at the listing.
ReturnEmpty_after_table(c) ==
    /\ EndCall(c, <<>>, "count", 0, <<>>, "ok", "none")
    /\ tbl' = _get_table(tbl, rows, "none").tbl
    /\ rows' = _get_table(tbl, rows, "none").rows

\* The listing is empty: return 0 at line 73, before _get_table is called.
ReturnEmpty(c) ==
    /\ EndCall(c, <<>>, "count", 0, <<>>, "skipped", "none")
    /\ UNCHANGED <<tbl, rows>>

\* index_folder up to its loop (lines 69-79).
IndexFolderCall(folder_name, fault) ==
    /\ pc = "idle"
    /\ Event
    /\ fault \in {"none", "list", "read"} \cup TableFaults(tbl)
    /\ LET notes == list_notes_in_folder(folder_name)
           c0 == Started("index_folder", folder_name)
           c1 == [c0 EXCEPT !.notes = notes]
           t == _get_table(tbl, rows, fault)
       IN  IF fault = "list"
           THEN \* list_notes_in_folder raises
                /\ Propagate(c0, "skipped", "list")
                /\ UNCHANGED <<tbl, rows>>
           ELSE IF notes = <<>>
           THEN /\ fault = "none"
                /\ ReturnEmpty(c0)
           ELSE /\ tbl' = t.tbl
                /\ rows' = t.rows
                /\ IF t.raised
                   THEN Propagate(c1, "raised", "table")
                   ELSE IF fault = "read"
                   THEN \* _table_rows raises inside _get_index_map
                        Propagate(c1, "ok", "read")
                   ELSE EnterLoop([c1 EXCEPT
                            !.index_map = _get_index_map(t.rows, folder_name),
                            !.cold = DOMAIN _get_index_map(t.rows, folder_name) = {},
                            !.outdated = Outdated(t.rows, folder_name)])
    /\ UNCHANGED <<clock, INDEX_VERSION, source, bridge, filter>>

\* ------------------------------------------------------ reindex_updated_notes
\* reindex_updated_notes up to its loop (lines 120-134).
ReindexCall(folder_name, fault) ==
    /\ pc = "idle"
    /\ Event
    /\ fault \in {"none", "list", "read"} \cup TableFaults(tbl)
    /\ LET notes == IF folder_name # NoFolder
                    THEN list_notes_in_folder(folder_name)
                    ELSE list_all_notes
           c0 == Started("reindex_updated_notes", folder_name)
           t == _get_table(tbl, rows, fault)
       IN  /\ tbl' = t.tbl
           /\ rows' = t.rows
           /\ IF t.raised
              THEN Propagate(c0, "raised", "table")
              ELSE IF fault = "read"
              THEN \* _table_rows raises inside _get_index_map
                   Propagate(c0, "ok", "read")
              ELSE IF fault = "list"
              THEN \* the listing raises, after the table was acquired
                   Propagate(c0, "ok", "list")
              ELSE EnterLoop([c0 EXCEPT
                       !.notes = notes,
                       !.index_map = _get_index_map(t.rows, folder_name),
                       !.cold = DOMAIN _get_index_map(t.rows, folder_name) = {},
                       !.outdated = Outdated(t.rows, folder_name)])
    /\ UNCHANGED <<clock, INDEX_VERSION, source, bridge, filter>>

\* ------------------------------------------------------------- the loop
\* A variant that fetches the details before the freshness decision.
lookups_of_eager(fault, stale) ==
    IF fault = "id" THEN <<"id">>
    ELSE IF fault = "ts" THEN <<"id", "ts">>
    ELSE <<"id", "ts", "details">>

\* The round trips to the source one iteration issues, in order: get_note_id,
\* get_note_modification_timestamp, and get_note_details if the note is
\* judged stale; a lookup that raises ends the iteration.
lookups_of(fault, stale) ==
    IF fault = "id" THEN <<"id">>
    ELSE IF fault = "ts" \/ ~stale THEN <<"id", "ts">>
    ELSE <<"id", "ts", "details">>

\* What one iteration leaves in the trace: the note, the fault it met, the
\* modification time and the index-map entry the decision read, the decision
\* and the outcome ("upserted", "skipped" or "failed").
Entry(note_name, note_id, fault, modified_ts, index_map, stale, outcome) ==
    [name |-> note_name, note_id |-> note_id, fault |-> fault,
     lookups |-> lookups_of(fault, stale),
     modified_ts |-> modified_ts,
     had_info |-> note_id \in DOMAIN index_map,
     info |-> IF note_id \in DOMAIN index_map THEN index_map[note_id] ELSE <<0, 0>>,
     needs_reindex |-> stale, outcome |-> outcome,
     error |-> IF fault \in {"id", "ts", "details"} THEN Raised(fault, fault)
               ELSE IF fault = "add" THEN "Exception"
               ELSE "none"]

\* Variants without the except clause's continue: the loop stops at the note
\* that failed (_breaks); the exception leaves the call (_raises).
IterFailed_breaks(entry) ==
    /\ call' = [call EXCEPT !.i = Len(call.notes) + 1]
    /\ trace' = Append(trace, entry)
    /\ UNCHANGED <<pc, done>>

IterFailed_raises(entry) ==
    EndCall(call, Append(trace, entry), "error", 0, <<>>, "ok", "none")

\* The iteration raised: the except clause logs and continues with the next note.
IterFailed(entry) ==
    /\ call' = [call EXCEPT !.i = @ + 1]
    /\ trace' = Append(trace, entry)
    /\ UNCHANGED <<pc, done>>

\* The note is up to date: skipped += 1.
IterSkipped(entry) ==
    /\ call' = [call EXCEPT !.i = @ + 1, !.skipped = @ + 1]
    /\ trace' = Append(trace, entry)
    /\ UNCHANGED <<pc, done>>

\* _upsert_note returned: indexed += 1 / reindexed += 1.
IterUpserted(entry) ==
    /\ call' = [call EXCEPT !.i = @ + 1, !.indexed = @ + 1]
    /\ trace' = Append(trace, entry)
    /\ UNCHANGED <<pc, done>>

\* One iteration of the loop of index_folder (lines 81-104) or of
\* reindex_updated_notes (lines 135-157).
ProcessNote(fault) ==
    /\ pc = "loop"
    /\ call.i <= Len(call.notes)
    /\ IF fault = "none" THEN UNCHANGED events ELSE Event
    /\ LET note_name == call.notes[call.i]
           note_id == get_note_id(note_name)
           garbled == fault = "garbled"
           modified_ts == get_note_modification_timestamp(ts_reply(note_name, garbled))
           stale == needs_reindex(call.op, call.index_map, note_id, modified_ts)
           note_details == get_note_details(note_name, call.folder, garbled)
           up == _upsert_note(rows, note_details, clock, fault)
           entry(outcome) == Entry(note_name, note_id, fault, modified_ts,
                                   call.index_map, stale, outcome)
       IN  IF Raised(fault, "id") # "none"
           THEN \* get_note_id raises
                /\ IterFailed(Entry(note_name, "", fault, 0, call.index_map,
                                    FALSE, "failed"))
                /\ UNCHANGED rows
           ELSE IF Raised(fault, "ts") # "none"
           THEN \* get_note_modification_timestamp raises
                /\ IterFailed(Entry(note_name, note_id, fault, 0, call.index_map,
                                    FALSE, "failed"))
                /\ UNCHANGED rows
           ELSE IF ~stale
           THEN /\ fault \in {"none", "garbled"}
                /\ IterSkipped(entry("skipped"))
                /\ UNCHANGED rows
           ELSE IF Raised(fault, "details") # "none"
           THEN \* get_note_details raises
                /\ IterFailed(entry("failed"))
                /\ UNCHANGED rows
           ELSE /\ rows' = up.rows
                /\ IF up.raised
                   THEN IterFailed(entry("failed"))
                   ELSE IterUpserted(entry("upserted"))
    /\ UNCHANGED <<clock, INDEX_VERSION, source, tbl, bridge, filter>>

\* The loop is over: return indexed (line 107) / reindexed (line 160).
ReturnCount ==
    /\ pc = "loop"
    /\ call.i > Len(call.notes)
    /\ EndCall(call, trace, "count", call.indexed, <<>>, "ok", "none")
    /\ UNCHANGED <<clock, INDEX_VERSION, source, tbl, rows, events, bridge, filter>>

\* ------------------------------------------------------------- search
\* A variant without the where clause: every row is ranked.
SearchHits_all(rs, folder_name) ==
    rs

\* A variant that re-sorts the hits: the ranking is reversed.
SearchHits_reversed(rs, folder_name) ==
    LET h == SelectSeq(rs, LAMBDA r : folder_name # NoFolder => r.folder = folder_name)
    IN  [k \in 1..Len(h) |-> h[Len(h) + 1 - k]]

\* The rows the query ranks, filtered by folder when one is given.
SearchHits(rs, folder_name) ==
    SelectSeq(rs, LAMBDA r : folder_name # NoFolder => r.folder = folder_name)

\* VectorSearchResult of one hit; the store may leave _distance out.
SearchResult(hit, rank, with_distance) ==
    [name |-> hit.name, folder |-> hit.folder, note_id |-> hit.note_id,
     distance |-> IF with_distance THEN rank ELSE 0]

\* VectorSearch.search
SearchCall(folder_name, limit, with_distance, fault) ==
    /\ pc = "idle"
    /\ Event
    /\ fault \in {"none", "read"} \cup TableFaults(tbl)
    /\ fault # "none" => limit = 0 /\ with_distance
    /\ LET c0 == [Started("search", folder_name) EXCEPT
                     !.limit = limit, !.with_distance = with_distance]
           t == _get_table(tbl, rows, fault)
           hits == SearchHits(t.rows, folder_name)
           top == SubSeq(hits, 1, IF limit < Len(hits) THEN limit ELSE Len(hits))
       IN  /\ tbl' = t.tbl
           /\ rows' = t.rows
           /\ IF t.raised
              THEN Propagate(c0, "raised", "table")
              ELSE IF fault = "read"
              THEN \* the query raises
                   Propagate(c0, "ok", "read")
              ELSE EndCall(c0, <<>>, "list", 0,
                       [k \in 1..Len(top) |-> SearchResult(top[k], k, with_distance)],
                       "ok", "none")
    /\ UNCHANGED <<clock, INDEX_VERSION, source, bridge, filter>>

\* ------------------------------------------------------------- environment
\* Time passes.
Tick ==
    /\ Event
    /\ clock' = clock + 1
    /\ UNCHANGED <<INDEX_VERSION, source, tbl, rows, pc, call, trace, done, bridge, filter>>

\* The user edits a note between two calls: its modification date becomes the
\* current time, or a time ahead of this machine's clock (an edit synced from
\* another device).
EditNote(n, ahead) ==
    /\ pc = "idle"
    /\ Event
    /\ source' = [source EXCEPT ![n].mts = clock + ahead]
    /\ done' = NoCall
    /\ UNCHANGED <<clock, INDEX_VERSION, tbl, rows, pc, call, trace, bridge, filter>>

\* The program is redeployed with another INDEX_VERSION.
Redeploy(v) ==
    /\ pc = "idle"
    /\ Event
    /\ v # INDEX_VERSION
    /\ INDEX_VERSION' = v
    /\ done' = NoCall
    /\ UNCHANGED <<clock, source, tbl, rows, pc, call, trace, bridge, filter>>

\* ------------------------------------------------------------- specification
\* A row of a table created before the index_version column existed.
LegacyRow ==
    [note_id |-> "n1", name |-> "a", folder |-> "F", modified_ts |-> 0,
     indexed_at |-> 0]

InitProgram ==
    /\ clock = 1
    /\ INDEX_VERSION = InitialIndexVersion
    /\ \E f \in Fixtures :
           source = [n \in NoteIds |->
                        [name |-> f[n].name, folder |-> f[n].folder, mts |-> 0]]
    /\ tbl \in {"none", "old"}
    /\ rows = IF tbl = "old" THEN <<LegacyRow>> ELSE <<>>
    /\ pc = "idle"
    /\ call = IdleCall
    /\ trace = <<>>
    /\ done = NoCall
    /\ events = 0

Init ==
    /\ InitProgram
    /\ bridge = NoReply
    /\ filter = NoFilter

Next ==
    \/ \E F \in Folders, fault \in CallFaults : IndexFolderCall(F, fault)
    \/ \E F \in Folders \cup {NoFolder}, fault \in CallFaults : ReindexCall(F, fault)
    \/ \E fault \in IterFaults : ProcessNote(fault)
    \/ ReturnCount
    \/ \E F \in Folders \cup {NoFolder}, limit \in 0..MaxLimit, d \in BOOLEAN,
          fault \in CallFaults : SearchCall(F, limit, d, fault)
    \/ Tick
    \/ \E n \in NoteIds, ahead \in {0, 1} : EditNote(n, ahead)
    \/ \E v \in 1..MaxVersion : Redeploy(v)

Spec == Init /\ [][Next]_vars

\* The program started on a table created before the index_version column
\* existed.
InitMigrate ==
    /\ Init
    /\ tbl = "old"

SpecMigrate == InitMigrate /\ [][Next]_vars

\* A step of a call in progress: the interpreter goes on with the loop, or
\* with the return after it, as long as the process runs.
LoopStep ==
    \/ \E fault \in IterFaults : ProcessNote(fault)
    \/ ReturnCount

\* The indexing calls and the edits of notes between them.
NextLive ==
    \/ \E F \in Folders, fault \in CallFaults : IndexFolderCall(F, fault)
    \/ \E F \in Folders \cup {NoFolder}, fault \in CallFaults : ReindexCall(F, fault)
    \/ LoopStep
    \/ \E n \in NoteIds, ahead \in {0, 1} : EditNote(n, ahead)

\* The indexing calls when a call in progress is not left halfway.
SpecLive == Init /\ [][NextLive]_vars /\ WF_vars(LoopStep)

\* The process stops inside _upsert_note, after table.delete has removed the
\* rows of the note and before table.add: the locals of the call are lost, the
\* caller gets nothing, the store keeps what the delete left.
CrashInUpsert ==
    /\ pc = "loop"
    /\ call.i <= Len(call.notes)
    /\ Event
    /\ LET note_name == call.notes[call.i]
           note_id == get_note_id(note_name)
           modified_ts == get_note_modification_timestamp(ts_reply(note_name, FALSE))
           stale == needs_reindex(call.op, call.index_map, note_id, modified_ts)
       IN  /\ stale = TRUE
           /\ rows' = DeleteWhere(rows, note_id)
           /\ done' = [NoCall EXCEPT !.kind = "crashed", !.op = call.op,
                                     !.folder = call.folder, !.crashed = note_id]
    /\ pc' = "idle"
    /\ call' = IdleCall
    /\ trace' = <<>>
    /\ UNCHANGED <<clock, INDEX_VERSION, source, tbl, bridge, filter>>

NextCrash ==
    \/ Next
    \/ CrashInUpsert

SpecCrash == Init /\ [][NextCrash]_vars

\* A value to filter by and the value the column of a stored row holds.
InitFilter ==
    /\ InitProgram
    /\ tbl = "none"
    /\ source = [n \in NoteIds |->
                    [name |-> FixtureDistinct[n].name,
                     folder |-> FixtureDistinct[n].folder, mts |-> 0]]
    /\ bridge = NoReply
    /\ \E value \in FilterValues, stored \in FilterValues :
           filter = [NoFilter EXCEPT !.stage = "value", !.value = value,
                                     !.stored = stored]

\* search's where clause on the folder (lines 178-180) or _upsert_note's
\* delete filter on the note_id (lines 253-256) is built and applied to the row.
ApplyFilter(column) ==
    /\ filter.stage = "value"
    /\ LET escaped == _escape_filter_value(filter.value)
           text == FilterText(column, escaped)
           w == Where(text)
       IN  filter' = [filter EXCEPT
                         !.stage = "applied", !.column = column,
                         !.escaped = escaped, !.text = text,
                         !.wellformed = w.wellformed,
                         !.matched = w.wellformed /\ w.column = column
                                         /\ filter.stored = w.value]
    /\ UNCHANGED <<clock, INDEX_VERSION, source, tbl, rows, pc, call, trace,
                   done, events, bridge>>

NextFilter ==
    \E column \in {"folder", "note_id"} : ApplyFilter(column)

SpecFilter == InitFilter /\ [][NextFilter]_vars

\* The bridge has replied, no call of the indexer is running.
InitParse ==
    /\ InitProgram
    /\ tbl = "none"
    /\ source = [n \in NoteIds |->
                    [name |-> FixtureDistinct[n].name,
                     folder |-> FixtureDistinct[n].folder, mts |-> 0]]
    /\ \E output \in Replies \cup Records :
           bridge = [NoReply EXCEPT !.stage = "reply", !.output = output]
    /\ filter = NoFilter

\* The reply is parsed as a list.
ParseList ==
    /\ bridge.stage = "reply"
    /\ bridge' = [bridge EXCEPT !.stage = "list",
                                !.items = parse_applescript_list(bridge.output)]
    /\ UNCHANGED <<clock, INDEX_VERSION, source, tbl, rows, pc, call, trace,
                   done, events, filter>>

\* The reply is parsed as a record.
ParseDict ==
    /\ bridge.stage = "reply"
    /\ bridge' = [bridge EXCEPT !.stage = "dict",
                                !.result = parse_applescript_dict(bridge.output)]
    /\ UNCHANGED <<clock, INDEX_VERSION, source, tbl, rows, pc, call, trace,
                   done, events, filter>>

NextParse ==
    \/ ParseList
    \/ ParseDict

SpecParse == InitParse /\ [][NextParse]_vars

\* ------------------------------------------------------------- properties
Batch == {"index_folder", "reindex_updated_notes"}

\* The positions of the rows of a note.
RowsOf(rs, note_id) ==
    {k \in 1..Len(rs) : rs[k].note_id = note_id}

\* The iterations of a trace with the given outcome.
Outcomes(tr, outcome) ==
    {k \in 1..Len(tr) : tr[k].outcome = outcome}

\* The list a call on that folder loops over.
Listed(op, folder_name) ==
    IF op = "index_folder" \/ folder_name # NoFolder
    THEN list_notes_in_folder(folder_name)
    ELSE list_all_notes

\* The iterations of the call in progress that reached the freshness decision.
Decided ==
    {k \in 1..Len(trace) : trace[k].fault \notin {"id", "ts"}}

\* C1: the store holds at most one row per note_id in every state, and right
\* after an upsert of a note_id that returned, exactly one row has that
\* note_id, also when the delete step raised and was swallowed.
C1_UpsertUniqueness ==
    /\ \A id \in NoteIds : Cardinality(RowsOf(rows, id)) <= 1
    /\ (trace # <<>> /\ trace[Len(trace)].outcome = "upserted") =>
           Cardinality(RowsOf(rows, trace[Len(trace)].note_id)) = 1

\* C2 as stated: index_folder(F) on a folder not indexed yet returns the number
\* N of notes of F, and the same call repeated with no note changed in between
\* returns 0 (no call meeting an exception).
C2_Idempotence ==
    (done.op = "index_folder" /\ done.kind = "count" /\ done.clean) =>
        /\ done.cold => done.count = done.n
        /\ done.again => done.count = 0

\* C2 amended: index_folder(F) on a folder not indexed yet returns N, and the
\* same call repeated with no note changed in between returns 0, provided no
\* note's modification time is ahead of the clock when the first call starts.
C2_IdempotencePast ==
    (done.op = "index_folder" /\ done.kind = "count" /\ done.clean /\ done.past) =>
        /\ done.cold => done.count = done.n
        /\ done.again => done.count = 0

\* The second of two index_folder calls in a row returned 0 on a folder of
\* two notes or more.
C2_Witness ==
    /\ done.op = "index_folder"
    /\ done.kind = "count"
    /\ done.again
    /\ done.past
    /\ done.n >= 2
    /\ done.count = 0
    /\ Outcomes(done.trace, "skipped") = 1..done.n

\* C3: when every note of folder F has rows and all of them are older than
\* INDEX_VERSION, index_folder(F) meeting no exception upserts every note of F
\* (count = N) whatever the modification times, and every row of F then
\* carries INDEX_VERSION.
C3_VersionBumpReindexesAll ==
    (done.op = "index_folder" /\ done.kind = "count" /\ done.outdated /\ done.clean) =>
        /\ done.count = done.n
        /\ Outcomes(done.trace, "upserted") = 1..done.n
        /\ \A k \in 1..Len(rows) :
               rows[k].folder = done.folder => rows[k].index_version = INDEX_VERSION

\* index_folder has re-indexed a folder of two notes or more after a version
\* bump, none of the notes being modified since it was indexed.
C3_Witness ==
    /\ done.op = "index_folder"
    /\ done.kind = "count"
    /\ done.outdated
    /\ done.clean
    /\ done.n >= 2
    /\ done.count = done.n
    /\ \A k \in 1..Len(done.trace) :
           /\ done.trace[k].had_info
           /\ done.trace[k].modified_ts <= done.trace[k].info[1]

\* C4: for a note whose stored row, as the call read it, has indexed_at = t0
\* and the current index_version, the call upserts the note when
\* modified_ts > t0 (unless the detail fetch or the insert raises) and skips it
\* when modified_ts <= t0.
C4_FreshnessMonotonicity ==
    \A k \in Decided :
        (trace[k].had_info /\ trace[k].info[2] = INDEX_VERSION) =>
            /\ (trace[k].modified_ts > trace[k].info[1]
                    /\ trace[k].fault \notin {"details", "add"})
                 => trace[k].outcome = "upserted"
            /\ trace[k].modified_ts <= trace[k].info[1]
                 => trace[k].outcome = "skipped"

\* One call has upserted a note modified after t0 and skipped a note modified
\* at t0, both indexed at the current version.
C4_Witness ==
    \E j, k \in Decided :
        /\ trace[j].had_info /\ trace[j].info[2] = INDEX_VERSION
        /\ trace[j].modified_ts > trace[j].info[1]
        /\ trace[j].outcome = "upserted"
        /\ trace[k].had_info /\ trace[k].info[2] = INDEX_VERSION
        /\ trace[k].modified_ts = trace[k].info[1]
        /\ trace[k].outcome = "skipped"

\* C5: in index_folder and in reindex_updated_notes a note is judged stale if
\* and only if the index map has no entry for its note_id, or the stored
\* index_version is lower than INDEX_VERSION, or modified_ts is greater than
\* the stored indexed_at; a note judged fresh is skipped, a note judged stale
\* is not.
C5_FreshnessRule ==
    \A k \in Decided :
        /\ trace[k].needs_reindex <=>
               \/ ~trace[k].had_info
               \/ trace[k].info[2] < INDEX_VERSION
               \/ trace[k].modified_ts > trace[k].info[1]
        /\ trace[k].needs_reindex <=> trace[k].outcome # "skipped"

\* reindex_updated_notes has judged stale a note without an entry and a note
\* modified since it was indexed, and has judged fresh a note that was not.
C5_Witness ==
    /\ call.op = "reindex_updated_notes"
    /\ \E k \in Decided : ~trace[k].had_info /\ trace[k].needs_reindex
    /\ \E k \in Decided :
           /\ trace[k].had_info
           /\ trace[k].info[2] = INDEX_VERSION
           /\ trace[k].modified_ts > trace[k].info[1]
           /\ trace[k].needs_reindex
    /\ \E k \in Decided :
           /\ trace[k].had_info
           /\ trace[k].info[2] = INDEX_VERSION
           /\ trace[k].modified_ts <= trace[k].info[1]
           /\ ~trace[k].needs_reindex

\* C6: a note whose stored row has an index_version other than INDEX_VERSION,
\* lower or higher, is upserted by the call that covers it (unless the detail
\* fetch or the insert raises).
C6_VersionMismatchReembedded ==
    \A k \in Decided :
        (trace[k].had_info /\ trace[k].info[2] # INDEX_VERSION
             /\ trace[k].fault \notin {"details", "add"})
          => trace[k].outcome = "upserted"

\* C7: a call that entered its loop processes every note of the list, whatever
\* failed on the way, and returns the number of notes whose upsert returned.
C7_FaultIsolation ==
    /\ pc = "loop" =>
           /\ Len(trace) = call.i - 1
           /\ call.indexed = Cardinality(Outcomes(trace, "upserted"))
    /\ (done.op \in Batch /\ done.kind = "count" /\ done.acq = "ok") =>
           /\ Len(done.trace) = done.n
           /\ \A k \in 1..done.n : done.trace[k].name = Listed(done.op, done.folder)[k]
           /\ done.count = Cardinality(Outcomes(done.trace, "upserted"))

\* Three stale notes, the detail fetch of the second raised: the call
\* returned 2.
C7_Witness ==
    /\ done.op = "index_folder"
    /\ done.kind = "count"
    /\ done.n = 3
    /\ \A k \in 1..3 : done.trace[k].needs_reindex
    /\ done.trace[2].fault = "details"
    /\ done.trace[1].outcome = "upserted"
    /\ done.trace[2].outcome = "failed"
    /\ done.trace[3].outcome = "upserted"
    /\ done.count = 2

C9_AcquisitionFailurePropagates ==
    /\ done.acq = "raised" =>
           /\ done.kind = "error"
           /\ done.raised = "table"
           /\ done.trace = <<>>
           /\ done.results = <<>>
    /\ pc = "loop" => tbl = "cur"
    /\ done.kind = "list" => tbl = "cur"

\* _get_table raised inside index_folder on a folder with notes, while
\* migrating a table of the old schema.
C9_Witness ==
    /\ done.op = "index_folder"
    /\ done.n > 0
    /\ done.acq = "raised"
    /\ done.kind = "error"
    /\ tbl = "old"

\* C10: when the modification-date reply does not parse, modified_ts is 0 and
\* nothing is raised: the note is upserted only if the index map has no entry
\* for it or its stored index_version is lower than INDEX_VERSION.
C10_ParseDefault ==
    \A k \in Decided :
        trace[k].fault = "garbled" =>
            /\ trace[k].modified_ts = 0
            /\ trace[k].outcome # "failed"
            /\ trace[k].outcome = "upserted" =>
                   ~trace[k].had_info \/ trace[k].info[2] < INDEX_VERSION

\* A note edited since it was indexed is skipped because the reply did not
\* parse.
C10_Witness ==
    \E k \in Decided :
        /\ trace[k].fault = "garbled"
        /\ trace[k].had_info
        /\ trace[k].info[2] = INDEX_VERSION
        /\ source[trace[k].note_id].mts > trace[k].info[1]
        /\ trace[k].outcome = "skipped"

\* C11: search with a folder name A returns only results whose stored folder
\* is A itself, whatever the store holds.
C11_FolderScopedSearch ==
    (done.op = "search" /\ done.kind = "list" /\ done.folder # NoFolder) =>
        \A k \in 1..Len(done.results) :
            /\ done.results[k].folder = done.folder
            /\ \E j \in 1..Len(rows) :
                   /\ rows[j].note_id = done.results[k].note_id
                   /\ rows[j].folder = done.folder

\* A search scoped to one folder returned a result while the store also
\* holds a row of another folder.
C11_Witness ==
    /\ done.op = "search"
    /\ done.kind = "list"
    /\ done.folder # NoFolder
    /\ done.results # <<>>
    /\ \E j \in 1..Len(rows) : rows[j].folder # done.folder

\* The rows of a table of the current schema: all have the index_version column.
CurrentSchema(rs) ==
    \A k \in 1..Len(rs) : "index_version" \in DOMAIN rs[k]

\* C12, the step: when _get_table returns on a table without the
\* index_version column, the table has the current schema and no row.
C12_MigrationStep ==
    (tbl = "old" /\ tbl' # "old" /\ done'.acq # "raised") =>
        /\ tbl' = "cur"
        /\ rows' = <<>>
        /\ pc' = "loop" => call'.cold /\ DOMAIN call'.index_map = {}
        /\ done'.op = "search" => done'.results = <<>>

\* C12, the calls that follow: on the migrated table every row is one an
\* upsert wrote, and a batch call that finds no row treats every note it
\* covers as unindexed and, unless the detail fetch or the insert raises,
\* inserts a row for it.
C12_AfterMigration ==
    /\ tbl = "cur" => CurrentSchema(rows)
    /\ (pc = "loop" /\ call.cold) =>
           \A k \in Decided :
               /\ ~trace[k].had_info
               /\ trace[k].needs_reindex
               /\ trace[k].fault \notin {"details", "add"} =>
                      /\ trace[k].outcome = "upserted"
                      /\ k = Len(trace) => RowsOf(rows, trace[k].note_id) # {}
    /\ (done.op \in Batch /\ done.kind = "count" /\ done.cold /\ done.clean) =>
           done.count = done.n

\* C12: opening a table that lacks index_version leaves a table of the
\* current schema with no row, and the batch call that follows indexes every
\* note it covers from scratch.
C12_MigrationDestructive ==
    []C12_AfterMigration /\ [][C12_MigrationStep]_vars

\* After a migration, index_folder has indexed every note of a folder of two
\* notes or more, the note of the old table's row among them.
C12_Witness ==
    /\ tbl = "cur"
    /\ done.op = "index_folder"
    /\ done.kind = "count"
    /\ done.cold
    /\ done.n >= 2
    /\ done.count = done.n
    /\ \E k \in 1..Len(done.trace) : done.trace[k].note_id = LegacyRow.note_id
    /\ \A k \in 1..Len(rows) : rows[k] # LegacyRow

\* A call starts and _get_table returns in it.
TableAcquired ==
    /\ pc = "idle"
    /\ \/ pc' = "loop"
       \/ done' # done /\ done'.acq = "ok"

\* C13, the step: _get_table leaves a table of the current schema; a table
\* that had it keeps all its rows; one more _get_table on the store it left
\* returns and changes nothing.
C13_AcquireStep ==
    TableAcquired =>
        /\ tbl' = "cur"
        /\ tbl = "cur" => rows' = rows
        /\ tbl # "cur" => rows' = <<>>
        /\ _get_table(tbl', rows', "none") =
               [raised |-> FALSE, tbl |-> tbl', rows |-> rows']

\* C13: calling _get_table twice in a row leaves the store as calling it once
\* does, from no table, from a table of the old schema and from a table of
\* the current schema, whose rows are all kept.
C13_GetTableIdempotent ==
    [][C13_AcquireStep]_vars

\* search has opened a table of the current schema that holds rows, after a
\* batch call had opened it before.
C13_Witness ==
    /\ done.op = "search"
    /\ done.acq = "ok"
    /\ tbl = "cur"
    /\ rows # <<>>

\* A call of the operation starts and ends in this step.
CallWithoutLoop(op) ==
    /\ pc = "idle"
    /\ pc' = "idle"
    /\ events' # events
    /\ clock' = clock
    /\ done'.op = op

\* C14, the step: index_folder whose listing returns empty returns 0 and
\* leaves the table and its rows as they were; _get_table is not called.
C14_EmptyFolderStep ==
    /\ (CallWithoutLoop("index_folder")
            /\ done'.raised # "list"
            /\ list_notes_in_folder(done'.folder) = <<>>) =>
           /\ done'.kind = "count"
           /\ done'.count = 0
           /\ done'.acq = "skipped"
           /\ tbl' = tbl
           /\ rows' = rows
    /\ (pc = "idle" /\ pc' = "loop" /\ call'.op = "index_folder") =>
           call'.notes # <<>>

\* C14: index_folder on a folder whose listing is empty returns 0 without
\* touching the store.
C14_EmptyFolderNoStoreAccess ==
    [][C14_EmptyFolderStep]_vars

\* index_folder returned 0 for an empty folder and the table of the old
\* schema is still there with its row, not migrated.
C14_Witness ==
    /\ done.op = "index_folder"
    /\ done.kind = "count"
    /\ done.n = 0
    /\ done.count = 0
    /\ list_notes_in_folder(done.folder) = <<>>
    /\ tbl = "old"
    /\ rows = <<LegacyRow>>

\* The rows of a note, and the rows of the other notes, in storage order.
RowsFor(rs, note_id) ==
    SelectSeq(rs, LAMBDA r : r.note_id = note_id)

RowsBut(rs, note_id) ==
    SelectSeq(rs, LAMBDA r : r.note_id # note_id)

\* One iteration of the loop has just run.
Iterated ==
    /\ pc = "loop"
    /\ Len(trace') = Len(trace) + 1

\* C15, the step: an iteration that judges its note fresh leaves every row as
\* it was; an iteration that judges it stale and whose upsert returns leaves
\* exactly one row of the note, stamped with INDEX_VERSION and the current
\* time, in place of whatever rows the note had, and no other row changes.
C15_NoteStep ==
    Iterated =>
        LET e == trace'[Len(trace')]
        IN  e.fault \notin {"id", "ts"} =>
                /\ ~e.needs_reindex => rows' = rows
                /\ (e.needs_reindex /\ e.fault \notin {"details", "add"}) =>
                       /\ Len(RowsFor(rows', e.note_id)) = 1
                       /\ RowsFor(rows', e.note_id)[1].index_version = INDEX_VERSION
                       /\ RowsFor(rows', e.note_id)[1].indexed_at = clock
                       /\ RowsFor(rows', e.note_id)[1].modified_ts = e.modified_ts
                       /\ RowsFor(rows', e.note_id)[1].name = e.name
                       /\ RowsBut(rows', e.note_id) = RowsBut(rows, e.note_id)

\* C15: a note goes from unindexed to Indexed(v, t); a call that judges it
\* stale replaces its row wholesale by Indexed(INDEX_VERSION, now), a call
\* that judges it fresh leaves its row unchanged.
C15_PerNoteStateMachine ==
    [][C15_NoteStep]_vars

\* Iterations i..last of the loop of op on rows acc.rows, no call raising and
\* every reply parsing, at the current time: the rows left, the count and the
\* note_ids upserted, in order.
RECURSIVE RunLoop(_, _, _, _, _, _, _)
RunLoop(op, folder_name, notes, index_map, acc, i, last) ==
    IF i > last
    THEN acc
    ELSE LET note_name == notes[i]
             note_id == get_note_id(note_name)
             modified_ts == get_note_modification_timestamp(ts_reply(note_name, FALSE))
             note_details == get_note_details(note_name, folder_name, FALSE)
         IN  IF needs_reindex(op, index_map, note_id, modified_ts)
             THEN RunLoop(op, folder_name, notes, index_map,
                          [rows |-> _upsert_note(acc.rows, note_details, clock, "none").rows,
                           count |-> acc.count + 1,
                           upserted |-> Append(acc.upserted, note_id)],
                          i + 1, last)
             ELSE RunLoop(op, folder_name, notes, index_map, acc, i + 1, last)

\* A whole call of op on the current store, no call raising: the table, the
\* rows left, the count returned and the note_ids upserted.
RunCall(op, folder_name) ==
    LET notes == Listed(op, folder_name)
        t == _get_table(tbl, rows, "none")
        r == RunLoop(op, folder_name, notes, _get_index_map(t.rows, folder_name),
                     [rows |-> t.rows, count |-> 0, upserted |-> <<>>],
                     1, Len(notes))
    IN  IF op = "index_folder" /\ notes = <<>>
        THEN [tbl |-> tbl, rows |-> rows, count |-> 0, upserted |-> <<>>]
        ELSE [tbl |-> t.tbl, rows |-> r.rows, count |-> r.count, upserted |-> r.upserted]

\* C16, the state: on the current store, source and clock, index_folder(F) and
\* reindex_updated_notes(F) upsert the same notes, leave the same store and
\* return the same count, for every folder F with notes.
C16_SameOutcome ==
    \A F \in Folders :
        list_notes_in_folder(F) # <<>> =>
            RunCall("reindex_updated_notes", F) = RunCall("index_folder", F)

\* C16, the steps: a call enters its loop with the listing and the index map
\* RunCall starts from, which with no folder are the names of all notes and
\* an index map over every stored row; an iteration in which nothing raises
\* does what RunLoop does.
C16_RunStep ==
    /\ (pc = "idle" /\ pc' = "loop") =>
           /\ call'.notes = Listed(call'.op, call'.folder)
           /\ call'.index_map = _get_index_map(rows', call'.folder)
           /\ call'.folder = NoFolder =>
                  /\ call'.notes = list_all_notes
                  /\ Len(call'.notes) = Cardinality(NoteIds)
                  /\ DOMAIN call'.index_map =
                         {rows'[k].note_id : k \in 1..Len(rows')}
    /\ (Iterated /\ trace'[Len(trace')].fault = "none") =>
           LET r == RunLoop(call.op, call.folder, call.notes, call.index_map,
                            [rows |-> rows, count |-> call.indexed, upserted |-> <<>>],
                            call.i, call.i)
           IN  /\ rows' = r.rows
               /\ call'.indexed = r.count
               /\ (trace'[Len(trace')].outcome = "upserted") <=>
                      (r.upserted = <<trace'[Len(trace')].note_id>>)

\* C16: reindex_updated_notes applies the staleness logic of index_folder: on
\* a folder with notes both upsert the same notes, leave the same store and
\* return the same count; with no folder the candidates are all notes and the
\* index map covers every stored row.
C16_ReindexMatchesIndexFolder ==
    []C16_SameOutcome /\ [][C16_RunStep]_vars

\* reindex_updated_notes on a folder has upserted one note and skipped
\* another, as index_folder would from the store it leaves.
C16_Witness ==
    /\ done.op = "reindex_updated_notes"
    /\ done.folder # NoFolder
    /\ done.kind = "count"
    /\ Outcomes(done.trace, "upserted") # {}
    /\ Outcomes(done.trace, "skipped") # {}
    /\ RunCall("index_folder", done.folder).count = 0
    /\ RunCall("reindex_updated_notes", done.folder).count = 0

\* The note_ids the store holds.
StoredIds(rs) ==
    {rs[k].note_id : k \in 1..Len(rs)}

\* C17 as stated, the step: on a table of the current schema no step takes a
\* note_id out of the store.
C17_NoIdLost ==
    tbl = "cur" => StoredIds(rows) \subseteq StoredIds(rows')

C17_ReplaceStep ==
    tbl = "cur" =>
        /\ tbl' = "cur"
        /\ ~Iterated => rows' = rows
        /\ Iterated =>
               LET e == trace'[Len(trace')]
               IN  /\ RowsBut(rows', e.note_id) = RowsBut(rows, e.note_id)
                   /\ e.fault # "add" => StoredIds(rows) \subseteq StoredIds(rows')
                   /\ e.outcome # "upserted" =>
                          \/ rows' = rows
                          \/ e.fault = "add" /\ rows' = RowsBut(rows, e.note_id)

Ranking(folder_name) ==
    SelectSeq(rows, LAMBDA r : folder_name = NoFolder \/ r.folder = folder_name)

\* C18: search returns at most limit results, the first of the store's
\* ranking in the ranking's order, each with the name, folder and note_id of
\* its row and a distance, which is 0 when the store supplies none.
C18_SearchResults ==
    (done.op = "search" /\ done.kind = "list") =>
        /\ Len(done.results) <= done.limit
        /\ Len(done.results) = Min({done.limit, Len(Ranking(done.folder))})
        /\ \A k \in 1..Len(done.results) :
               /\ DOMAIN done.results[k] = {"name", "folder", "note_id", "distance"}
               /\ done.results[k].name = Ranking(done.folder)[k].name
               /\ done.results[k].folder = Ranking(done.folder)[k].folder
               /\ done.results[k].note_id = Ranking(done.folder)[k].note_id
               /\ done.results[k].distance = IF done.with_distance THEN k ELSE 0

\* search returned limit = 2 results out of more hits, in ranking order, the
\* store supplying no distance.
C18_Witness ==
    /\ done.op = "search"
    /\ done.kind = "list"
    /\ done.limit = 2
    /\ Len(done.results) = 2
    /\ Len(Ranking(done.folder)) > 2
    /\ done.results[1].note_id # done.results[2].note_id
    /\ ~done.with_distance
    /\ done.results[2].distance = 0

\* The faults that are a source call failing in the bridge.
SourceFaults == {"id", "ts", "details"}

\* C19: a run of osascript that exceeds the 30 seconds, or exits with a
\* non-zero code, is raised as AppleScriptError; inside the loop it fails that
\* note alone: the failed iteration writes nothing, and every note after it is
\* still processed.
C19_TimeoutSkipsOneNote ==
    /\ \A proc \in ProcResults :
           (proc.elapsed > ScriptTimeout \/ proc.returncode # 0) =>
               run_inline_applescript(proc).raised = "AppleScriptError"
    /\ \A k \in 1..Len(trace) :
           trace[k].fault \in SourceFaults =>
               /\ trace[k].error = "AppleScriptError"
               /\ trace[k].outcome = "failed"
    /\ pc = "loop" => Len(trace) = call.i - 1
    /\ (done.op \in Batch /\ done.kind = "count") =>
           \A k \in 1..Len(done.trace) :
               done.trace[k].fault \in SourceFaults =>
                   /\ done.trace[k].outcome = "failed"
                   /\ Len(done.trace) = done.n
                   /\ done.count = Cardinality(Outcomes(done.trace, "upserted"))

\* The modification-date script of the first of three notes timed out: the
\* note was skipped, the two notes after it were upserted and the call
\* returned 2.
C19_Witness ==
    /\ done.op \in Batch
    /\ done.kind = "count"
    /\ done.n = 3
    /\ done.trace[1].fault = "ts"
    /\ osascript("ts", "ts").elapsed > ScriptTimeout
    /\ done.trace[1].error = "AppleScriptError"
    /\ done.trace[1].outcome = "failed"
    /\ done.trace[2].outcome = "upserted"
    /\ done.trace[3].outcome = "upserted"
    /\ done.count = 2

\* ---------------------------------------------------------------- C20
\* The quotes of a reply before its character i.
QuotesBefore(output, i) ==
    Cardinality({j \in 1..(i - 1) : output[j] = "\""})

\* The commas of a reply that stand outside double quotes.
Separators(output) ==
    {i \in 1..Len(output) : output[i] = "," /\ QuotesBefore(output, i) % 2 = 0}

\* The k-th stretch of a reply between two separators.
Chunk(output, k) ==
    LET seps == Separators(output)
        sep(n) == CHOOSE i \in seps : Cardinality({j \in seps : j < i}) = n - 1
        first == IF k = 1 THEN 1 ELSE sep(k - 1) + 1
        last == IF k = Cardinality(seps) + 1 THEN Len(output) ELSE sep(k) - 1
    IN  SubSeq(output, first, last)

\* A text without the characters of cs around it.
Trim(text, cs) ==
    LET keep == {i \in 1..Len(text) : text[i] \notin cs}
    IN  IF keep = {} THEN <<>> ELSE SubSeq(text, Min(keep), Max(keep))

\* What a reply lists: of each chunk, what is left once the whitespace around
\* it and then the double quotes around that are removed, if anything is left.
Listed_items(output) ==
    LET n == Cardinality(Separators(output)) + 1
        bare == [k \in 1..n |-> Trim(Trim(Chunk(output, k), {" "}), {"\""})]
    IN  SelectSeq(bare, LAMBDA item : item # <<>>)

\* C20 (as the source has it): parse_applescript_list returns the empty list
\* for an empty reply; for any other reply it returns, in the order of the
\* reply, what is left of each stretch between commas outside double quotes
\* once the whitespace around the stretch and then the double quotes around
\* the rest are removed (whitespace inside the quotes is kept); it never
\* returns an empty item, no item begins or ends with a double quote, and a
\* comma between double quotes splits nothing.
C20_ParseListItems ==
    bridge.stage = "list" =>
        /\ bridge.output = <<>> => bridge.items = <<>>
        /\ bridge.items = Listed_items(bridge.output)
        /\ Len(bridge.items) <= Cardinality(Separators(bridge.output)) + 1
        /\ \A k \in 1..Len(bridge.items) :
              /\ bridge.items[k] # <<>>
              /\ bridge.items[k][1] # "\""
              /\ bridge.items[k][Len(bridge.items[k])] # "\""
        /\ \A i \in 1..Len(bridge.output) :
              (bridge.output[i] = "," /\ QuotesBefore(bridge.output, i) % 2 = 1)
                  => \E k \in 1..Len(bridge.items) :
                        \E j \in 1..Len(bridge.items[k]) :
                            bridge.items[k][j] = ","

\* C20 (as stated): every returned item is non-empty and has neither
\* whitespace nor a double quote at either end.
C20_ItemsWithoutSurroundings ==
    bridge.stage = "list" =>
        \A k \in 1..Len(bridge.items) :
            /\ bridge.items[k] # <<>>
            /\ bridge.items[k][1] \notin {" ", "\""}
            /\ bridge.items[k][Len(bridge.items[k])] \notin {" ", "\""}

\* A reply of two quoted items, the first with a comma inside: two items.
C20_Witness ==
    /\ bridge.stage = "list"
    /\ bridge.output = <<"\"", ",", "\"", ",", "b">>
    /\ bridge.items = << <<",">>, <<"b">> >>

\* ---------------------------------------------------------------- C21
\* What parse_applescript_dict takes for the inside of a record.
RecordContent(output) ==
    IF output[Len(output)] = "}"
    THEN SubSeq(output, 2, Len(output) - 1)
    ELSE SubSeq(output, 2, Len(output))

\* The nesting depth in front of the character i.
DepthBefore(content, i) ==
    Cardinality({j \in 1..(i - 1) : content[j] \in {"{", "["}})
        - Cardinality({j \in 1..(i - 1) : content[j] \in {"}", "]"}})

\* The commas at nesting depth 0.
RecordSeparators(content) ==
    {i \in 1..Len(content) : content[i] = "," /\ DepthBefore(content, i) = 0}

\* The k-th stretch between two commas at depth 0.
RecordChunk(content, k) ==
    LET seps == RecordSeparators(content)
        sep(n) == CHOOSE i \in seps : Cardinality({j \in seps : j < i}) = n - 1
        first == IF k = 1 THEN 1 ELSE sep(k - 1) + 1
        last == IF k = Cardinality(seps) + 1 THEN Len(content) ELSE sep(k) - 1
    IN  SubSeq(content, first, last)

\* The stretches that hold a colon, by position.
Entries(content) ==
    {k \in 1..(Cardinality(RecordSeparators(content)) + 1) :
        \E i \in 1..Len(RecordChunk(content, k)) : RecordChunk(content, k)[i] = ":"}

\* The key and the value of an entry: what stands before and after its first
\* colon, without the whitespace and then the double quotes around it.
EntryKey(content, k) ==
    LET chunk == RecordChunk(content, k)
        colon == Min({i \in 1..Len(chunk) : chunk[i] = ":"})
    IN  Trim(Trim(SubSeq(chunk, 1, colon - 1), {" "}), {"\""})

EntryValue(content, k) ==
    LET chunk == RecordChunk(content, k)
        colon == Min({i \in 1..Len(chunk) : chunk[i] = ":"})
    IN  Trim(Trim(SubSeq(chunk, colon + 1, Len(chunk)), {" "}), {"\""})

\* C21: parse_applescript_dict returns the empty dict for "{}", for the empty
\* reply and for every reply that does not start with "{"; for a reply that
\* starts with "{" it splits the inside only at the commas of nesting depth 0
\* and each entry at its first colon, and maps the key of each entry to the
\* value of that entry (of the last such entry when a key repeats), neither
\* of them beginning or ending with a double quote.
C21_ParseDict ==
    bridge.stage = "dict" =>
        LET output == bridge.output
            result == bridge.result
        IN  /\ output = <<"{", "}">> => result = <<>>
            /\ (output = <<>> \/ output[1] # "{") => result = <<>>
            /\ (output # <<>> /\ output[1] = "{") =>
                  LET content == RecordContent(output)
                      entries == Entries(content)
                  IN  /\ DOMAIN result = {EntryKey(content, k) : k \in entries}
                      /\ \A k \in entries :
                            (\A l \in entries :
                                EntryKey(content, l) = EntryKey(content, k) => l <= k)
                                => result[EntryKey(content, k)] = EntryValue(content, k)
            /\ \A key \in DOMAIN result :
                  /\ key = <<>> \/ (key[1] # "\"" /\ key[Len(key)] # "\"")
                  /\ result[key] = <<>>
                        \/ (result[key][1] # "\"" /\ result[key][Len(result[key])] # "\"")

\* A record whose only value is a nested list with a comma inside.
C21_Witness ==
    /\ bridge.stage = "dict"
    /\ bridge.output = <<"{", "a", ":", "[", ",", "]", "}">>
    /\ DOMAIN bridge.result = {<<"a">>}
    /\ bridge.result[<<"a">>] = <<"[", ",", "]">>

\* ---------------------------------------------------------------- C22
\* The step wrote a row: the table has a last row it did not have before.
RowWritten ==
    /\ pc = "loop"
    /\ Len(trace') = Len(trace) + 1
    /\ trace'[Len(trace')].outcome = "upserted"

\* C22: the row an upsert writes carries the current INDEX_VERSION and the
\* clock value of that upsert as indexed_at; its content is the name, two
\* line breaks and the body, without the whitespace at either end; its
\* note_id, name, folder, created_ts and modified_ts are those of the note
\* details the upsert was given.
C22_WrittenRow ==
    RowWritten =>
        LET e == trace'[Len(trace')]
            d == get_note_details(e.name, call.folder, e.fault = "garbled")
            r == rows'[Len(rows')]
            text == <<d.name>> \o <<"\n", "\n">> \o d.body
        IN  /\ rows' # <<>>
            /\ r.index_version = INDEX_VERSION
            /\ r.indexed_at = clock
            /\ r.content = Trim(text, Whitespace)
            /\ r.content = <<>> \/ (r.content[1] \notin Whitespace
                                    /\ r.content[Len(r.content)] \notin Whitespace)
            /\ r.note_id = d.note_id
            /\ r.name = d.name
            /\ r.folder = d.folder
            /\ r.created_ts = d.created_ts
            /\ r.modified_ts = d.modified_ts
            /\ r.modified_ts = e.modified_ts

C22_RowFields == [][C22_WrittenRow]_vars

\* A call has written the rows of a note with an empty body (the content is
\* the name alone) and of a note whose body ends with a blank.
C22_Witness ==
    /\ done.op \in Batch
    /\ done.kind = "count"
    /\ \E k \in 1..Len(rows) :
          /\ rows[k].note_id = "n2"
          /\ rows[k].content = <<rows[k].name>>
          /\ rows[k].created_ts = CreationTimes["n2"]
          /\ rows[k].index_version = INDEX_VERSION
    /\ \E k \in 1..Len(rows) :
          /\ rows[k].note_id = "n1"
          /\ rows[k].content = <<rows[k].name, "\n", "\n", "x">>

\* ---------------------------------------------------------------- C23
\* The entries of an ended call that resolved to the note the process had
\* crashed on just before the call.
Recovered ==
    {k \in 1..Len(done.trace) : done.trace[k].note_id = done.crashed}

\* C23: when the process stops between the delete and the insert of an
\* upsert, the note has no stored row; the next index_folder or
\* reindex_updated_notes call that covers the note and meets no exception
\* finds no index-map entry for it, judges it stale, upserts it, and leaves
\* exactly one row for it.
C23_CrashRecovery ==
    /\ done.kind = "crashed" => RowsOf(rows, done.crashed) = {}
    /\ (/\ done.kind = "count"
        /\ done.op \in Batch
        /\ done.crashed # ""
        /\ done.clean
        /\ Recovered # {})
           => /\ \A k \in Recovered :
                    /\ ~done.trace[k].had_info
                    /\ done.trace[k].needs_reindex
                    /\ done.trace[k].outcome = "upserted"
              /\ Cardinality(RowsOf(rows, done.crashed)) = 1
              /\ done.count >= 1

\* index_folder crashed in an upsert of note n1, and the next index_folder
\* call, which met no exception, has written the row of n1 again.
C23_Witness ==
    /\ done.kind = "count"
    /\ done.op = "index_folder"
    /\ done.crashed = "n1"
    /\ done.clean
    /\ Recovered # {}
    /\ Cardinality(RowsOf(rows, "n1")) = 1
    /\ tbl = "cur"

\* ---------------------------------------------------------------- C24
\* The iteration just made read, for its note, an index-map entry of the
\* current version whose indexed_at is below the modification time the source
\* reports, and met no fault.
ReadFutureNote ==
    /\ pc = "loop"
    /\ Len(trace') = Len(trace) + 1
    /\ LET e == trace'[Len(trace')]
       IN  /\ e.fault = "none"
           /\ e.had_info
           /\ e.info[2] = INDEX_VERSION
           /\ e.info[1] < e.modified_ts

\* C24: a note whose index-map entry is of the current version and whose
\* modified_ts is above the indexed_at of that entry is upserted by every
\* indexing call that covers it; and when that modified_ts is also above the
\* clock, the row the upsert writes is stamped below it again, so the index
\* map read from the store after the upsert still makes the note stale.
C24_StaleStep ==
    ReadFutureNote =>
        LET e == trace'[Len(trace')]
            index_map == _get_index_map(rows', call.folder)
        IN  /\ e.needs_reindex
            /\ e.outcome = "upserted"
            /\ clock < e.modified_ts =>
                  /\ e.note_id \in DOMAIN index_map
                  /\ index_map[e.note_id] = <<clock, INDEX_VERSION>>
                  /\ needs_reindex(call.op, index_map, e.note_id, e.modified_ts)

C24_FutureNotePerpetuallyStale == [][C24_StaleStep]_vars

\* The same call was made twice in a row with nothing changed in between, and
\* the second call has upserted again a note with a row of the current
\* version, whose modification time is still ahead of the clock.
C24_Witness ==
    /\ done.op \in Batch
    /\ done.kind = "count"
    /\ done.again
    /\ done.clean
    /\ done.count >= 1
    /\ \E k \in 1..Len(done.trace) :
          /\ done.trace[k].had_info
          /\ done.trace[k].info[2] = INDEX_VERSION
          /\ done.trace[k].info[1] < done.trace[k].modified_ts
          /\ done.trace[k].outcome = "upserted"
          /\ clock < done.trace[k].modified_ts
          /\ \E r \in RowsOf(rows, done.trace[k].note_id) :
                rows[r].indexed_at < rows[r].modified_ts

\* ---------------------------------------------------------------- C25
\* The lookups of a trace entry are the id lookup, then the modification-time
\* lookup, then the detail fetch, cut where the iteration ended.
InLookupOrder(e) ==
    /\ Len(e.lookups) \in 1..3
    /\ e.lookups = SubSeq(<<"id", "ts", "details">>, 1, Len(e.lookups))
    /\ (Len(e.lookups) = 3) <=> e.needs_reindex
    /\ (Len(e.lookups) = 1) <=> (e.fault = "id")

\* The loop is at entry i after i - 1 iterations, one per list entry, in the
\* order of the list; a call that returned its count has visited every entry
\* of the list once, in order.
C25_SequentialOrder ==
    /\ pc = "loop" =>
          /\ Len(trace) = call.i - 1
          /\ call.i <= Len(call.notes) + 1
          /\ call.notes = Listed(call.op, call.folder)
          /\ \A k \in 1..Len(trace) :
                /\ trace[k].name = call.notes[k]
                /\ InLookupOrder(trace[k])
    /\ (done.op \in Batch /\ done.kind = "count" /\ done.acq = "ok") =>
          /\ Len(done.trace) = done.n
          /\ done.n = Len(Listed(done.op, done.folder))
          /\ \A k \in 1..done.n :
                /\ done.trace[k].name = Listed(done.op, done.folder)[k]
                /\ InLookupOrder(done.trace[k])

\* A call that entered its loop returns.
C25_Terminates ==
    (pc = "loop") ~> (pc = "idle")

\* C25: index_folder and reindex_updated_notes visit the listed notes one
\* after the other in the order of the list, each entry once, issue per entry
\* the id lookup, then the modification-time lookup, then the detail fetch
\* only if the note is judged stale, and then return.
C25_TerminatesInOrder ==
    []C25_SequentialOrder /\ C25_Terminates

\* A call over three notes has returned after skipping one note (two lookups)
\* and upserting another (three lookups).
C25_Witness ==
    /\ done.op \in Batch
    /\ done.kind = "count"
    /\ done.n = 3
    /\ Len(done.trace) = 3
    /\ \E k \in 1..3 : /\ done.trace[k].outcome = "skipped"
                       /\ done.trace[k].lookups = <<"id", "ts">>
    /\ \E k \in 1..3 : /\ done.trace[k].outcome = "upserted"
                       /\ done.trace[k].lookups = <<"id", "ts", "details">>

\* ---------------------------------------------------------------- C26
\* The single quotes of a value in front of its character i.
QuotesInFront(value, i) ==
    Cardinality({j \in 1..(i - 1) : value[j] = "'"})

\* C26: _escape_filter_value puts two single quotes for every single quote
\* of the value and changes nothing else; with it, the folder filter of
\* search and the delete filter of _upsert_note are accepted by the store and
\* match a row exactly when its column equals the value.
C26_FilterEscaping ==
    filter.stage = "applied" =>
        LET value == filter.value
            escaped == filter.escaped
        IN  /\ Len(escaped) = Len(value) + QuotesInFront(value, Len(value) + 1)
            /\ \A i \in 1..Len(value) :
                  /\ escaped[i + QuotesInFront(value, i)] = value[i]
                  /\ value[i] = "'" => escaped[i + QuotesInFront(value, i) + 1] = "'"
            /\ filter.text = <<filter.column, " ", "=", " ", "'">> \o escaped \o <<"'">>
            /\ filter.wellformed
            /\ filter.matched <=> (filter.stored = value)

\* A value with a single quote in the middle matched the row that holds it.
C26_Witness ==
    /\ filter.stage = "applied"
    /\ filter.column = "folder"
    /\ filter.value = <<"a", "'", "a">>
    /\ filter.escaped = <<"a", "'", "'", "a">>
    /\ filter.stored = filter.value
    /\ filter.matched

\* ---------------------------------------------------------------- C27
\* The iteration just made raised and its note was skipped.
IterationFailed ==
    /\ Iterated
    /\ trace'[Len(trace')].outcome = "failed"

\* C27: an iteration that raises and skips its note leaves the rows of that
\* note as they were, also when the insert fails after the delete succeeded.
C27_FailureStep ==
    IterationFailed =>
        LET note_id == get_note_id(trace'[Len(trace')].name)
        IN  RowsFor(rows', note_id) = RowsFor(rows, note_id)

C27_FailureLeavesRow == [][C27_FailureStep]_vars

\* ---------------------------------------------------------------- C28
\* The step is a call of search.
SearchStep ==
    /\ pc = "idle"
    /\ pc' = "idle"
    /\ events' = events + 1
    /\ clock' = clock
    /\ done'.op = "search"

\* C28 (as stated): whatever the store holds (no table, a table with the old
\* schema, a table with the current schema), a call of search leaves the
\* stored rows as they were.
C28_ReadOnlyStep ==
    SearchStep => rows' = rows

C28_SearchReadOnly == [][C28_ReadOnlyStep]_vars

\* C28 (as the source has it): a call of search leaves the stored rows as
\* they were when there is no table or the table has the current schema; on a
\* table with the old schema it leaves the rows only if it raises before the
\* table is dropped, and otherwise leaves no row at all: a search that returns
\* has emptied the store.
C28_MigratingStep ==
    SearchStep =>
        /\ tbl # "old" => rows' = rows
        /\ tbl = "old" =>
              /\ rows' = rows \/ rows' = <<>>
              /\ rows' = rows => (done'.kind = "error" /\ tbl' = "old")
              /\ done'.kind = "list" =>
                    (rows' = <<>> /\ tbl' = "cur" /\ done'.results = <<>>)
        /\ tbl' # tbl => tbl \in {"none", "old"}

C28_SearchReadOnlyUnlessMigrating == [][C28_MigratingStep]_vars

\* A search on a table of the current schema has returned hits and the rows
\* are still stored.
C28_Witness ==
    /\ done.op = "search"
    /\ done.kind = "list"
    /\ done.results # <<>>
    /\ tbl = "cur"
    /\ Len(rows) >= Len(done.results)
    /\ \A k \in 1..Len(done.results) :
          \E r \in 1..Len(rows) : rows[r].note_id = done.results[k].note_id

\* ---------------------------------------------------------------- C29
\* reindex_updated_notes() without a folder has returned its count and no
\* iteration met an exception.
FullPassDone ==
    /\ done.op = "reindex_updated_notes"
    /\ done.folder = NoFolder
    /\ done.kind = "count"
    /\ done.clean

\* C29: after a full pass without per-note failure every note of the source
\* has exactly one stored row with its note_id, and that row is of the
\* current INDEX_VERSION, also when notes share a name.
C29_FullPassComplete ==
    FullPassDone =>
        \A n \in NoteIds :
            /\ Cardinality(RowsOf(rows, n)) = 1
            /\ \A k \in RowsOf(rows, n) : rows[k].index_version = INDEX_VERSION

\* ---------------------------------------------------------------- C30
\* The iterations of an ended call that upserted the note.
UpsertsOf(note_id) ==
    {k \in Outcomes(done.trace, "upserted") : done.trace[k].note_id = note_id}

\* The note_ids the entries of the list of an ended call resolve to.
Covered ==
    {get_note_id(done.trace[k].name) : k \in 1..Len(done.trace)}

\* C30: in one call of index_folder or reindex_updated_notes every note_id
\* is upserted at most once, and the count returned is at most the number of
\* distinct notes the call covers, also when two entries of the list resolve
\* to the same note_id.
C30_UpsertedOncePerCall ==
    (done.op \in Batch /\ done.kind = "count") =>
        /\ \A n \in NoteIds : Cardinality(UpsertsOf(n)) <= 1
        /\ done.count <= Cardinality(Covered)

====
